---- MODULE Spec2Model ----
(***************************************************************************)
(* Flat/dark-field normalization of tomographic projections               *)
(* (tomopy/prep/normalize.py): the numeric kernel _normalize, the entry   *)
(* points normalize and normalize_bg, and the nearest-flat entry point    *)
(* normalize_nf.                                                           *)
(*                                                                         *)
(* A sample is a float32: every array the module touches has gone through *)
(* as_float32, and the arithmetic below rounds as IEEE binary32 does.     *)
(* A frame is a function from the pixel indices 1..NPix to samples, a     *)
(* volume is a function from the frame indices 0..n-1 to frames, and a    *)
(* calibration stack is a sequence of frames.                             *)
(***************************************************************************)
EXTENDS Integers, Sequences, FiniteSets, TLC

VARIABLES
    tomo,          \* the caller's projection volume (after as_float32)
    flats,         \* the caller's flat-field stack
    darks,         \* the caller's dark-field stack
    flat_loc,      \* normalize_nf: flat locations, a sequence of integers
    cutoff,        \* None or a sample
    air,           \* normalize_bg: boundary pixel count (None elsewhere)
    pc,            \* position of the entry point that is running
    flat,          \* the reduced flat frame (None before it is computed)
    dark,          \* the reduced dark frame (None before it is computed)
    arr,           \* the volume the entry point returns (None before it exists)
    m,             \* normalize_nf: loop index
    tstart,        \* normalize_nf: start of the current segment
    tend,          \* normalize_nf: end of the current segment
    SHARED_ARRAY,  \* mproc.SHARED_ARRAY: the volume the workers mutate
    jobs,          \* the running invocations of func, one per chunk
    hist           \* observation only: what has happened so far

vars == <<tomo, flats, darks, flat_loc, cutoff, air, pc, flat, dark, arr,
          m, tstart, tend, SHARED_ARRAY, jobs, hist>>

(***************************************************************************)
(* Bounds of the model.                                                    *)
(***************************************************************************)
NPix == 2
MaxT == 3
MaxF == 3
MaxChunks == 2

Pixels == 1..NPix

(***************************************************************************)
(* Samples: IEEE binary32 (float32), round to nearest even.                *)
(*                                                                         *)
(* A sample is <<s, m, e>>, the value (-1)^s * m * 2^e, with 0 <= m < 2^24 *)
(* and -149 <= e <= 104, and m >= 2^23 unless e = -149 (subnormals and the *)
(* zeros).  The exponent 105 marks the specials: inf has m = 0, nan m = 1. *)
(***************************************************************************)
None == <<>>

MantLimit == 2^24
MantNormal == 2^23
ExpMin == 0 - 149
ExpMax == 127 - 23
ExpSpecial == ExpMax + 1

NaN == <<0, 1, ExpSpecial>>
PInf == <<0, 0, ExpSpecial>>
NInf == <<1, 0, ExpSpecial>>
Special == {NaN, PInf, NInf}

Abs(x) == IF x < 0 THEN -x ELSE x
Max(x, y) == IF x >= y THEN x ELSE y
Min(x, y) == IF x <= y THEN x ELSE y

\* the number of bits of x (0 <= x < 2^31)
RECURSIVE BitLen(_)
BitLen(x) == IF x = 0 THEN 0 ELSE 1 + BitLen(x \div 2)

IsZero(v) == v[2] = 0 /\ v[3] # ExpSpecial
SignedZero(s) == <<s, 0, ExpMin>>
SignedInf(s) == <<s, 0, ExpSpecial>>
Neg(v) == IF v = NaN THEN NaN ELSE <<1 - v[1], v[2], v[3]>>

\* the sample with mantissa mant <= 2^24 and exponent e >= -149, already
\* rounded; a mantissa of 2^24 carries into the exponent, an exponent above
\* 104 overflows to inf
Pack(s, mant, e) ==
    LET mm == IF mant = MantLimit THEN MantNormal ELSE mant
        ee == IF mant = MantLimit THEN e + 1 ELSE e
    IN  IF ee > ExpMax THEN SignedInf(s) ELSE <<s, mm, ee>>

\* (-1)^s * big * 2^e rounded to the nearest sample, ties to even
\* (0 <= big < 2^31; an inexact big carries its sticky bit as lowest bit and
\* is then at least 2^25)
RoundPack(s, big, e) ==
    IF big = 0 THEN SignedZero(s)
    ELSE LET bl == BitLen(big)
             sh == Max(bl - 24, ExpMin - e)
         IN  IF sh <= 0
             THEN LET up == Min(24 - bl, e - ExpMin)
                  IN  Pack(s, big * 2^up, e - up)
             ELSE IF sh > 31 THEN SignedZero(s)
             ELSE IF sh = 31
                  THEN Pack(s, IF big > 2^30 THEN 1 ELSE 0, e + sh)
             ELSE LET p == 2^sh
                      q == big \div p
                      r == big % p
                      half == p \div 2
                      q1 == IF r > half \/ (r = half /\ q % 2 = 1)
                            THEN q + 1 ELSE q
                  IN  Pack(s, q1, e + sh)

\* the float32 of an integer n (|n| < 2^31)
R(n) == RoundPack(IF n < 0 THEN 1 ELSE 0, Abs(n), 0)
Zero == R(0)

\* IEEE ==: nan equals nothing, the two zeros are equal
FEq(a, b) == a # NaN /\ b # NaN /\ (a = b \/ (IsZero(a) /\ IsZero(b)))

\* |a| > |b| for samples that are not nan
MagGt(a, b) == a[3] > b[3] \/ (a[3] = b[3] /\ a[2] > b[2])

\* IEEE >: false when either side is nan
FGt(a, b) ==
    IF a = NaN \/ b = NaN THEN FALSE
    ELSE IF IsZero(a) /\ IsZero(b) THEN FALSE
    ELSE IF a[1] # b[1] THEN a[1] = 0
    ELSE IF a[1] = 0 THEN MagGt(a, b)
    ELSE MagGt(b, a)

\* not (a > b): true when either side is nan
FLe(a, b) == ~FGt(a, b)

\* lo's mantissa shifted right by d bits, the bits lost kept as a sticky bit
ShiftRightJam(mant, d) ==
    IF d >= 25 THEN (IF mant # 0 THEN 1 ELSE 0)
    ELSE LET t == mant \div 2^d
         IN  IF mant % 2^d # 0 /\ t % 2 = 0 THEN t + 1 ELSE t

\* a + b for finite a and b: three extra bits below the larger exponent
AddFinite(a, b) ==
    LET hi == IF a[3] >= b[3] THEN a ELSE b
        lo == IF a[3] >= b[3] THEN b ELSE a
        d == hi[3] - lo[3]
        x == hi[2] * 8
        y == IF d <= 3 THEN lo[2] * 2^(3 - d) ELSE ShiftRightJam(lo[2], d - 3)
        sum == (IF hi[1] = 1 THEN -x ELSE x) + (IF lo[1] = 1 THEN -y ELSE y)
    IN  IF sum = 0 THEN SignedZero(IF a[1] = 1 /\ b[1] = 1 THEN 1 ELSE 0)
        ELSE RoundPack(IF sum < 0 THEN 1 ELSE 0, Abs(sum), hi[3] - 3)

FAdd(a, b) ==
    IF a = NaN \/ b = NaN THEN NaN
    ELSE IF a \in Special THEN (IF b \in Special /\ b # a THEN NaN ELSE a)
    ELSE IF b \in Special THEN b
    ELSE AddFinite(a, b)

FSub(a, b) == FAdd(a, Neg(b))

\* <<floor(n * 2^k / d), its remainder>> by long division (n < 2d, d < 2^24)
RECURSIVE DivBits(_, _, _)
DivBits(n, d, k) ==
    IF k = 0 THEN <<n \div d, n % d>>
    ELSE LET prev == DivBits(n, d, k - 1)
         IN  <<2 * prev[1] + (2 * prev[2]) \div d, (2 * prev[2]) % d>>

\* a / b for finite non-zero a and b: 27 quotient bits and a sticky bit
DivFinite(a, b) ==
    LET ua == 24 - BitLen(a[2])
        ub == 24 - BitLen(b[2])
        qr == DivBits(a[2] * 2^ua, b[2] * 2^ub, 26)
    IN  RoundPack((a[1] + b[1]) % 2,
                  2 * qr[1] + (IF qr[2] # 0 THEN 1 ELSE 0),
                  (a[3] - ua) - (b[3] - ub) - 27)

\* numpy true_divide: x/0 is +-inf, 0/0 is nan, nothing is raised
FDiv(a, b) ==
    IF a = NaN \/ b = NaN THEN NaN
    ELSE IF a \in Special
         THEN (IF b \in Special THEN NaN ELSE SignedInf((a[1] + b[1]) % 2))
    ELSE IF b \in Special THEN SignedZero((a[1] + b[1]) % 2)
    ELSE IF IsZero(b)
         THEN (IF IsZero(a) THEN NaN ELSE SignedInf((a[1] + b[1]) % 2))
    ELSE IF IsZero(a) THEN SignedZero((a[1] + b[1]) % 2)
    ELSE DivFinite(a, b)

\* the literal 1e-6 of the zero-division guard, stored into a float32 array
Epsilon == <<0, 8796093, 0 - 43>>

(***************************************************************************)
(* Frames, volumes and slices.                                             *)
(***************************************************************************)
\* a frame whose first pixel is v and whose other pixels are w
Frame(v, w) == [p \in Pixels |-> IF p = 1 THEN v ELSE w]

\* number of frames of a volume (shape[0])
Shape0(vol) == Cardinality(DOMAIN vol)

\* Python's normalisation of a slice bound against a length n
SliceIdx(i, n) == IF i < 0 THEN (IF i + n < 0 THEN 0 ELSE i + n)
                  ELSE IF i > n THEN n ELSE i

\* the indices vol[a:b] selects, in order: lo..hi-1 (empty when hi <= lo)
SliceLo(a, n) == SliceIdx(a, n)
SliceHi(a, b, n) == IF SliceIdx(b, n) < SliceIdx(a, n) THEN SliceIdx(a, n)
                    ELSE SliceIdx(b, n)

\* vol[a:b] as a volume of its own, indexed from 0
Slice(vol, a, b) ==
    LET n == Shape0(vol)
        lo == SliceLo(a, n)
        hi == SliceHi(a, b, n)
    IN  [i \in 0..(hi - lo - 1) |-> vol[lo + i]]

\* vol after vol[a:b] = src (src has the slice's length)
SliceAssign(vol, a, b, src) ==
    LET n == Shape0(vol)
        lo == SliceLo(a, n)
        hi == SliceHi(a, b, n)
    IN  [i \in DOMAIN vol |-> IF lo <= i /\ i < hi THEN src[i - lo] ELSE vol[i]]

\* stack[a:b] of a calibration stack (a sequence), as a sequence
StackSlice(stack, a, b) ==
    LET n == Len(stack)
        lo == SliceLo(a, n)
        hi == SliceHi(a, b, n)
    IN  [i \in 1..(hi - lo) |-> stack[lo + i]]

(***************************************************************************)
(* Reductions of a calibration stack along axis 0.                         *)
(***************************************************************************)
\* the float32 sum of stack[1..k][p], accumulated in order (k >= 1)
RECURSIVE SumTo(_, _, _)
SumTo(stack, p, k) == IF k = 1 THEN stack[1][p]
                      ELSE FAdd(SumTo(stack, p, k - 1), stack[k][p])

\* stack.mean(axis=0); the mean of an empty stack is nan
Mean(stack) ==
    [p \in Pixels |->
        IF Len(stack) = 0 THEN NaN
        ELSE FDiv(SumTo(stack, p, Len(stack)), R(Len(stack)))]

\* the k-th smallest (1-based) of the samples stack[1..n][p], none a nan
KthSmallest(stack, p, k) ==
    CHOOSE v \in {stack[i][p] : i \in 1..Len(stack)} :
        /\ Cardinality({i \in 1..Len(stack) : FGt(v, stack[i][p])}) < k
        /\ Cardinality({i \in 1..Len(stack) : FLe(stack[i][p], v)}) >= k

HasNaN(stack, p) == \E i \in 1..Len(stack) : stack[i][p] = NaN

\* np.median(stack, axis=0); the median of an empty stack, or of samples
\* with a nan among them, is nan
Median(stack) ==
    [p \in Pixels |->
        LET n == Len(stack)
        IN  IF n = 0 \/ HasNaN(stack, p) THEN NaN
            ELSE IF n % 2 = 1 THEN KthSmallest(stack, p, (n + 1) \div 2)
            ELSE FDiv(FAdd(KthSmallest(stack, p, n \div 2),
                           KthSmallest(stack, p, n \div 2 + 1)), R(2))]

(***************************************************************************)
(* The numeric kernel _normalize(flat, dark, cutoff, istart, iend).        *)
(***************************************************************************)
\* a variant without the zero-division guard
DenomUnguarded(fl, dk) == [p \in Pixels |-> FSub(fl[p], dk[p])]

\* denom = flat - dark; denom[denom == 0] = 1e-6  (a new array: flat is kept)
Denom(fl, dk) ==
    [p \in Pixels |->
        LET d == FSub(fl[p], dk[p])
        IN  IF FEq(d, Zero) THEN Epsilon ELSE d]

\* np.true_divide(tomo[m, :, :] - dark, denom)
ProjOf(frame, dk, denom) ==
    [p \in Pixels |-> FDiv(FSub(frame[p], dk[p]), denom[p])]

\* a variant with the comparison reversed
ClampBelow(proj, c) ==
    IF c = None THEN proj
    ELSE [p \in Pixels |-> IF FGt(c, proj[p]) THEN c ELSE proj[p]]

\* if cutoff is not None: proj[proj > cutoff] = cutoff
Clamp(proj, c) ==
    IF c = None THEN proj
    ELSE [p \in Pixels |-> IF FGt(proj[p], c) THEN c ELSE proj[p]]

\* a variant that writes the open slice tomo[m:, :, :]
WriteTargetsFrom(vol, i) == {x \in DOMAIN vol : x >= i}

\* the frames the statement tomo[m, :, :] = proj writes
WriteTargets(vol, i) == {i}

\* the volume after tomo[m, :, :] = proj
WriteFrame(vol, i, proj) ==
    [x \in DOMAIN vol |-> IF x \in WriteTargets(vol, i) THEN proj ELSE vol[x]]

\* a variant that ignores istart: range(iend)
RangeFromZero(istart, iend) == [k \in 1..iend |-> k - 1]

\* range(istart, iend) as the sequence of indices the loop visits
RangeSeq(istart, iend) == [k \in 1..(iend - istart) |-> istart + k - 1]

\* one iteration of the loop body for frame i
KernelStep(vol, i, dk, denom, c) ==
    WriteFrame(vol, i, Clamp(ProjOf(vol[i], dk, denom), c))

RECURSIVE RunTo(_, _, _, _, _, _)
RunTo(vol, seq, k, dk, denom, c) ==
    IF k = 0 THEN vol
    ELSE KernelStep(RunTo(vol, seq, k - 1, dk, denom, c), seq[k], dk, denom, c)

\* one whole invocation of _normalize running alone on vol
KernelRun(vol, fl, dk, c, istart, iend) ==
    RunTo(vol, RangeSeq(istart, iend), Len(RangeSeq(istart, iend)),
          dk, Denom(fl, dk), c)

(***************************************************************************)
(* mproc.distribute_jobs(arr, func, args, axis=0, ncore, nchunk): the      *)
(* frame axis of arr is cut into contiguous chunks, arr becomes            *)
(* SHARED_ARRAY, func runs once per chunk, and the call returns            *)
(* SHARED_ARRAY when every chunk has finished.                             *)
(***************************************************************************)
\* the ways to cut 0..n-1 into at most MaxChunks contiguous chunks
CutSets(n) == {c \in SUBSET (1..(n - 1)) : Cardinality(c) < MaxChunks}

ChunkStarts(n, cuts) == IF n = 0 THEN {} ELSE {0} \cup cuts

ChunkEnd(n, cuts, s) ==
    CHOOSE e \in cuts \cup {n} :
        e > s /\ \A x \in cuts \cup {n} : x > s => e <= x

NewJobs(n, cuts, func) ==
    [s \in ChunkStarts(n, cuts) |->
        [func |-> func, istart |-> s, iend |-> ChunkEnd(n, cuts, s),
         pc |-> "call", k |-> 0, denom |-> None]]

NoJobs == [s \in {} |-> None]

Joined == \A j \in DOMAIN jobs : jobs[j].pc = "done"

NoWriters(vol) == [i \in DOMAIN vol |-> {}]

ChunksOf(js) == {<<js[j].istart, js[j].iend>> : j \in DOMAIN js}

\* the state change of entering distribute_jobs(vol, func, ...)
Distribute(vol, func) ==
    /\ SHARED_ARRAY' = vol
    /\ \E cuts \in CutSets(Shape0(vol)) :
          jobs' = NewJobs(Shape0(vol), cuts, func)

(***************************************************************************)
(* A worker: one invocation of _normalize on chunk j.                      *)
(***************************************************************************)
\* lines 116-120: bind the shared array, compute the guarded denominator
WorkerDenom(j) ==
    /\ jobs[j].func = "_normalize"
    /\ jobs[j].pc = "call"
    /\ jobs' = [jobs EXCEPT
                  ![j].denom = Denom(flat, dark),
                  ![j].pc = IF Len(RangeSeq(jobs[j].istart, jobs[j].iend)) = 0
                            THEN "done" ELSE "loop"]
    /\ UNCHANGED <<tomo, flats, darks, flat_loc, cutoff, air, pc, flat, dark, arr,
                   m, tstart, tend, SHARED_ARRAY, hist>>

\* lines 122-126: one iteration of the loop
WorkerFrame(j) ==
    /\ jobs[j].func = "_normalize"
    /\ jobs[j].pc = "loop"
    /\ LET seq == RangeSeq(jobs[j].istart, jobs[j].iend)
           i == seq[jobs[j].k + 1]
       IN  /\ SHARED_ARRAY' = KernelStep(SHARED_ARRAY, i, dark, jobs[j].denom, cutoff)
           /\ jobs' = [jobs EXCEPT
                         ![j].k = jobs[j].k + 1,
                         ![j].pc = IF jobs[j].k + 1 = Len(seq)
                                   THEN "done" ELSE "loop"]
           /\ hist' = [hist EXCEPT !.writers =
                         [x \in DOMAIN SHARED_ARRAY |->
                            IF x \in WriteTargets(SHARED_ARRAY, i)
                            THEN hist.writers[x] \cup {j}
                            ELSE hist.writers[x]]]
    /\ UNCHANGED <<tomo, flats, darks, flat_loc, cutoff, air, pc, flat, dark, arr,
                   m, tstart, tend>>

Worker == \E j \in DOMAIN jobs : WorkerDenom(j) \/ WorkerFrame(j)

(***************************************************************************)
(* normalize(tomo, flat, dark, cutoff, ncore, nchunk).                     *)
(***************************************************************************)
Hist0 ==
    [ndispatch |-> 0, dispatched |-> <<>>, written |-> <<>>, segs |-> <<>>,
     darkReduced |-> 0, src |-> None, flat0 |-> None, dark0 |-> None,
     writers |-> <<>>, owner |-> <<>>, passes |-> 0, first |-> None,
     chunks |-> {}]

\* lines 98-111: reduce the stacks by their mean and enter distribute_jobs
NormalizeCall ==
    /\ pc = "normalize"
    /\ flat' = Mean(flats)
    /\ dark' = Mean(darks)
    /\ Distribute(tomo, "_normalize")
    /\ pc' = "normalize_join"
    /\ hist' = [hist EXCEPT !.ndispatch = 1, !.darkReduced = 1,
                            !.src = tomo, !.flat0 = Mean(flats),
                            !.dark0 = Mean(darks),
                            !.writers = NoWriters(tomo), !.passes = 1,
                            !.chunks = ChunksOf(jobs')]
    /\ UNCHANGED <<tomo, flats, darks, flat_loc, cutoff, air, arr, m, tstart, tend>>

\* lines 105-112: distribute_jobs returns the shared array, normalize returns it
NormalizeReturn ==
    /\ pc = "normalize_join"
    /\ Joined
    /\ arr' = SHARED_ARRAY
    /\ jobs' = NoJobs
    /\ pc' = "done"
    /\ UNCHANGED <<tomo, flats, darks, flat_loc, cutoff, air, flat, dark,
                   m, tstart, tend, SHARED_ARRAY, hist>>

\* the float32 next above 1.0
OnePlusUlp == <<0, MantNormal + 1, 0 - 23>>

\* inputs of the model: finite samples, non-empty calibration stacks; the
\* float32 mean of 1, 1 and 1 + 2^-23 is 1.0
ProjFrames == {Frame(R(5), R(1)), Frame(R(0), R(2))}
FlatStacks ==
    {<<Frame(R(10), R(1)), Frame(R(10), R(1)), Frame(R(10), OnePlusUlp)>>,
     <<Frame(R(1), R(2)), Frame(R(4), R(3))>>}
DarkStacks == {<<Frame(R(0), R(1))>>, <<Frame(R(1), R(2)), Frame(R(2), R(3))>>}
Cutoffs == {None, R(1), R(3)}

InitNormalize ==
    /\ \E n \in 1..MaxT : tomo \in [0..(n - 1) -> ProjFrames]
    /\ flats \in FlatStacks
    /\ darks \in DarkStacks
    /\ flat_loc = <<>>
    /\ cutoff \in Cutoffs
    /\ air = None
    /\ pc = "normalize"
    /\ flat = None /\ dark = None /\ arr = None
    /\ m = 0 /\ tstart = 0 /\ tend = 0
    /\ SHARED_ARRAY = None
    /\ jobs = NoJobs
    /\ hist = Hist0

(***************************************************************************)
(* normalize_bg(tomo, air, ncore, nchunk): the volume goes to              *)
(* distribute_jobs with func = extern.c_normalize_bg, a compiled kernel of *)
(* which only the per-chunk contract is known: it is called with its       *)
(* chunk's range, rewrites frames of the shared array in place and keeps   *)
(* their shape.                                                            *)
(***************************************************************************)
\* the frames the compiled kernel may leave in place of a frame
BgFrames(frame) == {frame, Frame(R(1), R(1)), Frame(frame[1], R(1))}

\* lines 153-163: as_float32, as_int32, unpack the shape, enter distribute_jobs
NormalizeBgCall ==
    /\ pc = "normalize_bg"
    /\ Distribute(tomo, "c_normalize_bg")
    /\ pc' = "bg_join"
    /\ hist' = [hist EXCEPT !.ndispatch = 1, !.src = tomo,
                            !.writers = NoWriters(tomo),
                            !.chunks = ChunksOf(jobs')]
    /\ UNCHANGED <<tomo, flats, darks, flat_loc, cutoff, air, flat, dark, arr,
                   m, tstart, tend>>

\* one frame of chunk j rewritten by extern.c_normalize_bg
BgWorkerFrame(j) ==
    /\ jobs[j].func = "c_normalize_bg"
    /\ jobs[j].pc = "call"
    /\ LET i == jobs[j].istart + jobs[j].k
       IN  /\ \E f \in BgFrames(SHARED_ARRAY[i]) :
                 SHARED_ARRAY' = [SHARED_ARRAY EXCEPT ![i] = f]
           /\ jobs' = [jobs EXCEPT
                         ![j].k = jobs[j].k + 1,
                         ![j].pc = IF i + 1 = jobs[j].iend
                                   THEN "done" ELSE "call"]
           /\ hist' = [hist EXCEPT !.writers[i] = hist.writers[i] \cup {j}]
    /\ UNCHANGED <<tomo, flats, darks, flat_loc, cutoff, air, pc, flat, dark, arr,
                   m, tstart, tend>>

BgWorker == \E j \in DOMAIN jobs : BgWorkerFrame(j)

\* lines 157-164: distribute_jobs returns the shared array, normalize_bg
\* returns it
NormalizeBgReturn ==
    /\ pc = "bg_join"
    /\ Joined
    /\ arr' = SHARED_ARRAY
    /\ jobs' = NoJobs
    /\ pc' = "done"
    /\ UNCHANGED <<tomo, flats, darks, flat_loc, cutoff, air, flat, dark,
                   m, tstart, tend, SHARED_ARRAY, hist>>

BgAirs == {1, 2}

InitNormalizeBg ==
    /\ \E n \in 1..MaxT : tomo \in [0..(n - 1) -> ProjFrames]
    /\ flats = <<>>
    /\ darks = <<>>
    /\ flat_loc = <<>>
    /\ cutoff = None
    /\ air \in BgAirs
    /\ pc = "normalize_bg"
    /\ flat = None /\ dark = None /\ arr = None
    /\ m = 0 /\ tstart = 0 /\ tend = 0
    /\ SHARED_ARRAY = None
    /\ jobs = NoJobs
    /\ hist = Hist0

NextKernel == NormalizeCall \/ Worker \/ NormalizeReturn

NextNormalize ==
    NextKernel \/ NormalizeBgCall \/ BgWorker \/ NormalizeBgReturn

SpecNormalize == (InitNormalize \/ InitNormalizeBg) /\ [][NextNormalize]_vars

(***************************************************************************)
(* The kernel applied a second time: the caller hands the returned volume  *)
(* to distribute_jobs again with the same flat, dark and cutoff.           *)
(***************************************************************************)
KernelAgain ==
    /\ pc = "done"
    /\ hist.passes = 1
    /\ Distribute(arr, "_normalize")
    /\ pc' = "normalize_join"
    /\ hist' = [hist EXCEPT !.ndispatch = hist.ndispatch + 1,
                            !.first = arr, !.src = arr,
                            !.writers = NoWriters(arr), !.passes = 2,
                            !.chunks = ChunksOf(jobs')]
    /\ UNCHANGED <<tomo, flats, darks, flat_loc, cutoff, air, flat, dark, arr,
                   m, tstart, tend>>

SpecTwice == InitNormalize /\ [][NextKernel \/ KernelAgain]_vars

(***************************************************************************)
(* normalize_nf(tomo, flats, dark, flat_loc, cutoff, ncore, nchunk).       *)
(***************************************************************************)
\* np.zeros_like(tomo)
ZerosLike(vol) == [i \in DOMAIN vol |-> [p \in Pixels |-> Zero]]

\* line 207: num_per_flat = total_flats // num_flats  (num_flats # 0)
NumPerFlat(total_flats, num_flats) == total_flats \div num_flats

\* lines 211-213: the median of the m-th run of the flat stack
SegmentFlat(stack, i, num_per_flat) ==
    Median(StackSlice(stack, i * num_per_flat, (i + 1) * num_per_flat))

\* a variant that takes the previous end as inclusive
TStartAfterEnd(i, prev_tend) == IF i = 0 THEN 0 ELSE prev_tend + 1

\* line 218: tstart = 0 if m == 0 else tend
TStart(i, prev_tend) == IF i = 0 THEN 0 ELSE prev_tend

\* line 219: tend = total_tomo if m >= num_flats-1
\*                  else (flat_loc[m+1]-loc-1)//2 + loc
TEnd(loc, i, total_tomo) ==
    IF i >= Len(loc) - 1 THEN total_tomo
    ELSE (loc[i + 2] - loc[i + 1] - 1) \div 2 + loc[i + 1]

\* a variant that skips every other flat
NextIndexSkip(i) == i + 2

\* line 210: the index the for loop takes after m
NextIndex(i) == i + 1

\* lines 195-208: allocate the output, reduce the dark stack once, and
\* compute num_per_flat, which raises ZeroDivisionError for an empty flat_loc
NfEnter ==
    /\ pc = "normalize_nf"
    /\ arr' = ZerosLike(tomo)
    /\ dark' = Median(darks)
    /\ m' = 0
    /\ tend' = 0
    /\ pc' = IF Len(flat_loc) = 0 THEN "error" ELSE "nf_loop"
    /\ hist' = [hist EXCEPT !.darkReduced = hist.darkReduced + 1,
                            !.dark0 = Median(darks),
                            !.owner = [i \in DOMAIN tomo |-> -1]]
    /\ UNCHANGED <<tomo, flats, darks, flat_loc, cutoff, air, flat, tstart,
                   SHARED_ARRAY, jobs>>

\* lines 210-226: one loop iteration up to the call of distribute_jobs
NfIterate ==
    /\ pc = "nf_loop"
    /\ m < Len(flat_loc)
    /\ LET fl == SegmentFlat(flats, m, NumPerFlat(Len(flats), Len(flat_loc)))
           ts == TStart(m, tend)
           te == TEnd(flat_loc, m, Shape0(tomo))
       IN  /\ flat' = fl
           /\ tstart' = ts
           /\ tend' = te
           /\ Distribute(Slice(tomo, ts, te), "_normalize")
           /\ hist' = [hist EXCEPT
                         !.ndispatch = hist.ndispatch + 1,
                         !.dispatched = Append(hist.dispatched, m),
                         !.segs = Append(hist.segs, <<ts, te>>),
                         !.src = Slice(tomo, ts, te),
                         !.flat0 = fl,
                         !.writers = NoWriters(Slice(tomo, ts, te)),
                         !.passes = 1,
                         !.chunks = ChunksOf(jobs')]
    /\ pc' = "nf_join"
    /\ UNCHANGED <<tomo, flats, darks, flat_loc, cutoff, air, dark, arr, m>>

\* lines 221-228: distribute_jobs returns, arr[tstart:tend] = _arr, next m
NfWrite ==
    /\ pc = "nf_join"
    /\ Joined
    /\ arr' = SliceAssign(arr, tstart, tend, SHARED_ARRAY)
    /\ jobs' = NoJobs
    /\ m' = NextIndex(m)
    /\ pc' = "nf_loop"
    /\ hist' = [hist EXCEPT
                  !.written = Append(hist.written, m),
                  !.owner = [i \in DOMAIN tomo |->
                               IF /\ SliceLo(tstart, Shape0(tomo)) <= i
                                  /\ i < SliceHi(tstart, tend, Shape0(tomo))
                               THEN m ELSE hist.owner[i]]]
    /\ UNCHANGED <<tomo, flats, darks, flat_loc, cutoff, air, flat, dark,
                   tstart, tend, SHARED_ARRAY>>

\* line 230: the loop is exhausted, return arr
NfReturn ==
    /\ pc = "nf_loop"
    /\ m >= Len(flat_loc)
    /\ pc' = "done"
    /\ UNCHANGED <<tomo, flats, darks, flat_loc, cutoff, air, flat, dark, arr,
                   m, tstart, tend, SHARED_ARRAY, jobs, hist>>

\* the precondition on flat_loc: length >= 1, strictly increasing, in [0, T)
ValidLoc(loc, total_tomo) ==
    /\ Len(loc) >= 1
    /\ \A i \in 1..Len(loc) : 0 <= loc[i] /\ loc[i] < total_tomo
    /\ \A i \in 1..(Len(loc) - 1) : loc[i] < loc[i + 1]

\* inputs of the model: any flat_loc, valid or not, and stacks that may be empty
NfTomo(n) ==
    [i \in 0..(n - 1) |-> IF i % 2 = 0 THEN Frame(R(5), R(1))
                          ELSE Frame(R(0), R(2))]
NfFlats ==
    <<Frame(R(10), R(1)), Frame(R(4), R(3)), Frame(R(1), R(2)),
      Frame(R(2), R(1)), Frame(R(7), R(5)), Frame(R(3), R(3))>>
NfDarks == <<Frame(R(0), R(1)), Frame(R(2), R(3)), Frame(R(1), R(1))>>
NfStacks == {<<NfFlats, NfDarks>>, <<SubSeq(NfFlats, 1, 2), NfDarks>>,
             <<<<>>, NfDarks>>, <<NfFlats, <<>>>>}
NfCutoffs == {None, R(1)}
Locs(n) == UNION {[1..k -> 0..n] : k \in 0..MaxF}

InitNf ==
    /\ \E n \in 1..MaxT : tomo = NfTomo(n) /\ flat_loc \in Locs(n)
    /\ \E st \in NfStacks : flats = st[1] /\ darks = st[2]
    /\ cutoff \in NfCutoffs
    /\ air = None
    /\ pc = "normalize_nf"
    /\ flat = None /\ dark = None /\ arr = None
    /\ m = 0 /\ tstart = 0 /\ tend = 0
    /\ SHARED_ARRAY = None
    /\ jobs = NoJobs
    /\ hist = Hist0

\* the worked example: flats at frames 0, 10 and 25 of a 30-frame tomogram
InitExample ==
    /\ tomo = NfTomo(30)
    /\ flat_loc = <<0, 10, 25>>
    /\ flats = NfFlats
    /\ darks = NfDarks
    /\ cutoff = R(1)
    /\ air = None
    /\ pc = "normalize_nf"
    /\ flat = None /\ dark = None /\ arr = None
    /\ m = 0 /\ tstart = 0 /\ tend = 0
    /\ SHARED_ARRAY = None
    /\ jobs = NoJobs
    /\ hist = Hist0

NextNf == NfEnter \/ NfIterate \/ Worker \/ NfWrite \/ NfReturn

Spec == InitNf /\ [][NextNf]_vars

SpecExample == InitExample /\ [][NextNf]_vars

(***************************************************************************)
(* Properties of normalize_nf (specifications Spec and SpecExample).       *)
(***************************************************************************)
TotalTomo == Shape0(tomo)

SegStart(k) == hist.segs[k][1]
SegEnd(k) == hist.segs[k][2]

\* C1: for a strictly increasing in-bounds flat_loc the segments
\* [tstart, tend) the loop computes are contiguous (the first starts at 0,
\* each later one starts at the previous end), satisfy tstart <= tend, do
\* not overlap, and once the loop has finished cover exactly [0, T).
C1_SegmentsPartition ==
    ValidLoc(flat_loc, TotalTomo) =>
        /\ \A k \in 1..Len(hist.segs) :
              /\ SegStart(k) = (IF k = 1 THEN 0 ELSE SegEnd(k - 1))
              /\ SegStart(k) <= SegEnd(k)
              /\ SegEnd(k) <= TotalTomo
        /\ pc = "done" =>
              /\ Len(hist.segs) = Len(flat_loc)
              /\ SegEnd(Len(hist.segs)) = TotalTomo
              /\ \A i \in 0..(TotalTomo - 1) :
                    Cardinality({k \in 1..Len(hist.segs) :
                                   SegStart(k) <= i /\ i < SegEnd(k)}) = 1

C1_Witness ==
    /\ pc = "done"
    /\ ValidLoc(flat_loc, TotalTomo)
    /\ Len(flat_loc) = 3
    /\ SegStart(2) < SegEnd(2)

Dist(i, loc, k) == Abs(i - loc[k + 1])

\* the flat nearest to frame i, the earlier one on a tie (0-based)
NearestEarlier(i, loc) ==
    CHOOSE k \in 0..(Len(loc) - 1) :
        \A j \in 0..(Len(loc) - 1) :
            /\ Dist(i, loc, k) <= Dist(i, loc, j)
            /\ Dist(i, loc, j) = Dist(i, loc, k) => k <= j

\* C2: for a strictly increasing in-bounds flat_loc every frame i is
\* normalized with the flat whose location is nearest to i, the earlier
\* flat on a tie.
C2_NearestFlat ==
    (pc = "done" /\ ValidLoc(flat_loc, TotalTomo)) =>
        \A i \in 0..(TotalTomo - 1) :
            hist.owner[i] = NearestEarlier(i, flat_loc)

\* C3: flat_loc = [0, 10, 25] on 30 frames gives the segments [0,5),
\* [5,17), [17,30).  Line 219 takes the floor midpoint itself as the
\* exclusive end, so the code computes [0,4), [4,17), [17,30) and frame 4,
\* which is nearer to flat 0, is normalized with flat 1.
C3_StatedSegments ==
    (pc = "done" /\ flat_loc = <<0, 10, 25>> /\ TotalTomo = 30) =>
        hist.segs = <<<<0, 5>>, <<5, 17>>, <<17, 30>>>>

\* C8: when flat_loc is empty, not strictly increasing or out of bounds,
\* the call fails before any distribute_jobs call is issued and no frame of
\* the output volume is written.
C8_FailsBeforeDispatch ==
    ~ValidLoc(flat_loc, TotalTomo) =>
        /\ hist.ndispatch = 0
        /\ pc # "done"
        /\ arr \in {None, ZerosLike(tomo)}

UpTo(n) == [k \in 1..n |-> k - 1]

\* C9: distribute_jobs is called once per flat index, in ascending order of
\* m and Len(flat_loc) times in all; a dispatch is issued only when every
\* earlier segment has joined and been written into arr[tstart:tend]; the
\* running chunks all belong to the current segment; the dark stack is
\* reduced once, before the first dispatch.
C9_OneDispatchPerFlat ==
    /\ hist.dispatched = UpTo(hist.ndispatch)
    /\ hist.ndispatch <= Len(flat_loc)
    /\ pc = "nf_join" =>
          /\ hist.written = UpTo(hist.ndispatch - 1)
          /\ m = hist.ndispatch - 1
          /\ \A j \in DOMAIN jobs :
                /\ 0 <= jobs[j].istart
                /\ jobs[j].iend <= Shape0(Slice(tomo, tstart, tend))
    /\ pc \in {"nf_loop", "done"} =>
          /\ hist.written = hist.dispatched
          /\ jobs = NoJobs
          /\ m >= 1 => Slice(arr, tstart, tend) = SHARED_ARRAY
    /\ pc = "done" => hist.ndispatch = Len(flat_loc)
    /\ hist.ndispatch >= 1 => (hist.darkReduced = 1 /\ dark = hist.dark0)
    /\ pc = "done" => hist.darkReduced = 1

C9_Witness ==
    /\ pc = "done"
    /\ hist.ndispatch = 3
    /\ hist.written = <<0, 1, 2>>
    /\ \E k \in 1..3 : SegStart(k) < SegEnd(k)

(***************************************************************************)
(* Properties of the kernel and of normalize (specifications               *)
(* SpecNormalize and SpecTwice).                                           *)
(***************************************************************************)
Written(i) == hist.writers[i] # {}

\* C4: however the frame axis is cut into chunks and however the chunks'
\* iterations interleave, the volume normalize returns equals one
\* sequential run of _normalize over [0, T) on the input volume.
C4_ChunkingEquivalence ==
    (pc = "done" /\ hist.passes = 1) =>
        arr = KernelRun(tomo, flat, dark, cutoff, 0, TotalTomo)

C4_Witness ==
    /\ pc = "done"
    /\ hist.passes = 1
    /\ TotalTomo = 3
    /\ hist.chunks = {<<0, 2>>, <<2, 3>>}
    /\ arr # tomo

\* (projection - dark) / 1e-6 in float32
OverEpsilon(x, d) == FDiv(FSub(x, d), Epsilon)

\* C5: the denominator a worker divides by is never zero: it is 1e-6 where
\* flat equals dark and flat - dark elsewhere; for the finite inputs of the
\* model no written sample is nan or inf, and where flat equals dark the
\* written sample is (projection - dark) / 1e-6 (clamped when a cutoff is
\* given).
C5_DenominatorGuard ==
    pc = "normalize_join" =>
        /\ \A j \in DOMAIN jobs : jobs[j].pc # "call" =>
              \A p \in Pixels :
                 /\ ~FEq(jobs[j].denom[p], Zero)
                 /\ FEq(flat[p], dark[p]) => jobs[j].denom[p] = Epsilon
                 /\ ~FEq(flat[p], dark[p]) =>
                        jobs[j].denom[p] = FSub(flat[p], dark[p])
        /\ \A i \in DOMAIN SHARED_ARRAY : Written(i) =>
              \A p \in Pixels :
                 /\ SHARED_ARRAY[i][p] \notin Special
                 /\ FEq(flat[p], dark[p]) =>
                      LET q == OverEpsilon(hist.src[i][p], dark[p])
                      IN  SHARED_ARRAY[i][p] =
                            (IF cutoff # None /\ FGt(q, cutoff) THEN cutoff ELSE q)

C5_Witness ==
    /\ pc = "normalize_join"
    /\ cutoff = None
    /\ Len(flats) = 3
    /\ \E i \in DOMAIN SHARED_ARRAY : \E p \in Pixels :
          /\ Written(i)
          /\ FEq(flat[p], dark[p])
          /\ SHARED_ARRAY[i][p] = R(1000000)

\* a is at most b: neither is nan and a does not exceed b
AtMost(a, b) == a # NaN /\ b # NaN /\ ~FGt(a, b)

\* the corrected frame before clamping
Unclamped(i) == ProjOf(hist.src[i], dark, Denom(flat, dark))

\* C6: with a cutoff every written sample is at most the cutoff: a sample
\* whose unclamped value exceeds the cutoff equals the cutoff, any other
\* (negative ones included) keeps its unclamped value; without a cutoff
\* every written sample is the unclamped value.
C6_CutoffClamp ==
    pc = "normalize_join" =>
        \A i \in DOMAIN SHARED_ARRAY : Written(i) =>
            \A p \in Pixels :
               /\ cutoff = None => SHARED_ARRAY[i][p] = Unclamped(i)[p]
               /\ cutoff # None =>
                     /\ AtMost(SHARED_ARRAY[i][p], cutoff)
                     /\ FGt(Unclamped(i)[p], cutoff) =>
                           SHARED_ARRAY[i][p] = cutoff
                     /\ ~FGt(Unclamped(i)[p], cutoff) =>
                           SHARED_ARRAY[i][p] = Unclamped(i)[p]

C6_Witness ==
    /\ pc = "normalize_join"
    /\ cutoff # None
    /\ \E i \in DOMAIN SHARED_ARRAY : \E p, q \in Pixels :
          /\ Written(i)
          /\ FGt(Unclamped(i)[p], cutoff)
          /\ SHARED_ARRAY[i][p] = cutoff
          /\ FGt(Zero, Unclamped(i)[q])
          /\ SHARED_ARRAY[i][q] = Unclamped(i)[q]

\* C7 as stated: the kernel applied twice with the same flat, dark and
\* cutoff gives the result of applying it once.
C7_KernelIdempotent ==
    (pc = "done" /\ hist.passes = 2) => arr = hist.first

\* C7 amended: only the clamp is idempotent: after one or two applications
\* with a cutoff every sample is at most the cutoff and clamping the result
\* again changes nothing; the second application is the kernel run on the
\* first result, which normalizes it again.
C7_ClampIdempotent ==
    (pc = "done" /\ cutoff # None) =>
        /\ \A i \in DOMAIN arr :
              /\ \A p \in Pixels : AtMost(arr[i][p], cutoff)
              /\ Clamp(arr[i], cutoff) = arr[i]
        /\ hist.passes = 2 =>
              arr = KernelRun(hist.first, flat, dark, cutoff, 0, TotalTomo)

C7_Witness ==
    /\ pc = "done"
    /\ hist.passes = 2
    /\ cutoff # None
    /\ arr # hist.first
    /\ \E i \in DOMAIN arr : \E p \in Pixels : hist.first[i][p] = cutoff

\* C10: a _normalize invocation writes only the frames of its own chunk,
\* so no frame is written by two invocations and a frame nobody has written
\* yet still holds its input; the reduced flat and dark frames stay as they
\* were when the chunks were dispatched.
C10_FrameEffect ==
    pc = "normalize_join" =>
        /\ \A i \in DOMAIN SHARED_ARRAY :
              /\ \A j \in hist.writers[i] :
                    jobs[j].istart <= i /\ i < jobs[j].iend
              /\ Cardinality(hist.writers[i]) <= 1
              /\ ~Written(i) => SHARED_ARRAY[i] = hist.src[i]
        /\ flat = hist.flat0
        /\ dark = hist.dark0

C10_Witness ==
    /\ pc = "normalize_join"
    /\ \E j1, j2 \in DOMAIN jobs :
          /\ j1 # j2
          /\ jobs[j1].k >= 1
          /\ jobs[j2].k >= 1
          /\ jobs[j2].pc = "loop"
    /\ \E i \in DOMAIN SHARED_ARRAY : ~Written(i)

====
